---------------------------- MODULE Spec2Model ----------------------------
(***************************************************************************)
(* State-machine model of the e-commerce backend: the cart / order /       *)
(* payment core (models/Cart.js, models/Order.js, models/Product.js,       *)
(* routes/cart.js, routes/orders.js, routes/payment.js), the product       *)
(* reviews (routes/products.js) and the category catalogue (the Category   *)
(* model and routes/categories.js).                                        *)
(*                                                                         *)
(* Money is kept in integer cents.  A Date written by `new Date()` is      *)
(* modelled by the number of times the field has been stamped (every call  *)
(* yields a fresh value).  Mongo ObjectIds are small integers / strings.   *)
(***************************************************************************)
EXTENDS Integers, Sequences, FiniteSets, TLC

(***************************************************************************)
(* Bounds of the model.                                                    *)
(***************************************************************************)
MaxOrders == 2        \* orders that may be created in the checkout specifications
MaxPaidOrders == 1    \* orders that may be created in the payment specifications
MaxHistory == 2       \* cap on the length of an order's statusHistory
MaxIntents == 1       \* payment intents the provider may create
MaxStock == 2         \* initial stock of every product
MaxCartQty == 2       \* cap on the total quantity held by one cart
MaxCategories == 2    \* categories that may be created
MaxReviews == 3       \* cap on the length of a product's review list

(***************************************************************************)
(* Program constants (cents where they are amounts).                       *)
(***************************************************************************)
FreeShippingThreshold == 10000
FlatShipping == 1000
TaxRatePerMille == 85

Users == {"u1", "u2"}
Admin == "admin"
Callers == Users \cup {Admin}
Products == {"p1", "p2"}
NoCoupon == "none"
NoUser == "nobody"
\* Category _ids are the positions in creation order; 0 stands for parent: null.
NoParent == 0
\* Two review requests may be handled at the same time.
ReviewSlots == {"r1", "r2"}

ValidStatuses ==
  {"pending", "confirmed", "processing", "shipped", "delivered", "cancelled", "returned"}
\* Mutant of CancelableStatuses: a cancelled order may be cancelled again.
CancelableWithCancelled == {"pending", "confirmed", "processing", "cancelled"}
CancelableStatuses == {"pending", "confirmed", "processing"}
PaymentStatuses == {"pending", "processing", "completed", "failed", "refunded", "cancelled"}

\* The catalogue's variant definitions (Product.variants): p1 is sold in two
\* sizes, the larger one at a surcharge; p2 has no variants.
ProductVariants(p) ==
  IF p = "p1"
  THEN << [name |-> "Size",
           options |-> << [value |-> "S", priceModifier |-> 0],
                          [value |-> "L", priceModifier |-> 500] >>] >>
  ELSE << >>

InitialPrice(p) == IF p = "p1" THEN 4000 ELSE 6000
\* The prices the administrator gives p1 in the cart specification.
Prices == {4000, 4995}

\* The demo coupon table of POST /cart/apply-coupon.
DemoCoupons ==
  [SAVE10 |-> [type |-> "percentage", value |-> 10, minAmount |-> 5000],
   SAVE20 |-> [type |-> "percentage", value |-> 20, minAmount |-> 10000],
   FREESHIP |-> [type |-> "fixed", value |-> 1500, minAmount |-> 3000]]

(***************************************************************************)
(* Pure helpers.                                                           *)
(***************************************************************************)
Min(a, b) == IF a < b THEN a ELSE b
Max(a, b) == IF a > b THEN a ELSE b

\* Math.round(n / d) for n >= 0, d > 0: round half up.
RoundDiv(n, d) == (2 * n + d) \div (2 * d)

RECURSIVE SumMods(_)
\* selectedVariants.reduce((sum, v) => sum + v.priceModifier, 0)
SumMods(svs) ==
  IF svs = << >> THEN 0 ELSE Head(svs).priceModifier + SumMods(Tail(svs))

RECURSIVE SeqSum(_)
SeqSum(s) == IF s = << >> THEN 0 ELSE Head(s) + SeqSum(Tail(s))

\* Total quantity of product p over a sequence of line items.
LineQty(items, p) ==
  SeqSum([i \in 1..Len(items) |->
            IF items[i].product = p THEN items[i].quantity ELSE 0])

\* cartSchema.virtual('totalItems')
CartTotalItems(cart) == SeqSum([i \in 1..Len(cart.items) |-> cart.items[i].quantity])

\* Mutant of CartSubtotal: the variant price modifiers are left out.
CartSubtotalNoVariants(cart) ==
  SeqSum([i \in 1..Len(cart.items) |-> cart.items[i].price * cart.items[i].quantity])

\* cartSchema.virtual('subtotal')
CartSubtotal(cart) ==
  SeqSum([i \in 1..Len(cart.items) |->
            (cart.items[i].price + SumMods(cart.items[i].selectedVariants))
              * cart.items[i].quantity])

\* cartSchema.virtual('total')
CartTotal(cart) == Max(0, CartSubtotal(cart) - cart.discount)

EmptyCart == [items |-> << >>, couponCode |-> NoCoupon, discount |-> 0]

VARIABLES
  products,   \* Product collection: [Products -> product document]
  carts,      \* Cart collection: [Users -> cart document]
  orders,     \* Order collection: sequence of order documents, _id = index
  intents,    \* the payment provider's payment intents, id = index
  req,        \* POST /orders requests in progress: [Users -> request frame]
  handled,    \* intents whose payment_intent.succeeded event was handled
  categories, \* Category collection: sequence of category documents, _id = index
  reviewReq,  \* POST /products/:id/reviews requests in progress
  last        \* the operation just performed and its HTTP response

vars == <<products, carts, orders, intents, req, handled, categories, reviewReq, last>>

\* A request frame: the handler's position and its locals.
Idle == [pc |-> "idle"]

\* The response of the request just handled: the operation, the order or intent it
\* addressed (0: none), the HTTP status, and for a webhook whether the event had
\* been handled before.
Resp(op, arg, code) == [op |-> op, arg |-> arg, code |-> code, dup |-> FALSE]

Init ==
  /\ products = [p \in Products |->
                   [exists |-> TRUE, status |-> "active", price |-> InitialPrice(p),
                    trackQuantity |-> TRUE, quantity |-> MaxStock,
                    reviews |-> << >>, rating |-> [average |-> 0, count |-> 0]]]
  /\ carts = [u \in Users |-> EmptyCart]
  /\ orders = << >>
  /\ intents = << >>
  /\ req = [u \in Users |-> Idle]
  /\ handled = {}
  /\ categories = << >>
  /\ reviewReq = [s \in ReviewSlots |-> Idle]
  /\ last = Resp("init", 0, 0)

(***************************************************************************)
(* Cart aggregate.                                                         *)
(***************************************************************************)
\* product.variants.find(v => v.name === name): index of the first match, 0 if none
VariantIndex(p, name) ==
  LET vs == ProductVariants(p)
      hits == {i \in 1..Len(vs) : vs[i].name = name}
  IN IF hits = {} THEN 0 ELSE CHOOSE i \in hits : \A j \in hits : i <= j

OptionIndex(variant, value) ==
  LET hits == {i \in 1..Len(variant.options) : variant.options[i].value = value}
  IN IF hits = {} THEN 0 ELSE CHOOSE i \in hits : \A j \in hits : i <= j

RECURSIVE ValidatedVariants(_, _)
\* routes/cart.js: selections that name an option of the product, each with the
\* option's price modifier; the others are dropped.
ValidatedVariants(p, selected) ==
  IF selected = << >> THEN << >>
  ELSE LET sv == Head(selected)
           vi == VariantIndex(p, sv.name)
           oi == IF vi = 0 THEN 0 ELSE OptionIndex(ProductVariants(p)[vi], sv.value)
           rest == ValidatedVariants(p, Tail(selected))
       IN IF oi = 0 THEN rest
          ELSE << [name |-> sv.name, value |-> sv.value,
                   priceModifier |-> ProductVariants(p)[vi].options[oi].priceModifier] >>
               \o rest

\* cartSchema.methods.addItem: the predicate of findIndex
SameSelection(item, productId, selectedVariants) ==
  /\ item.product = productId
  /\ Len(item.selectedVariants) = Len(selectedVariants)
  /\ \A i \in 1..Len(item.selectedVariants) :
       \E j \in 1..Len(selectedVariants) :
         /\ selectedVariants[j].name = item.selectedVariants[i].name
         /\ selectedVariants[j].value = item.selectedVariants[i].value

\* cartSchema.methods.addItem
CartAddItem(cart, productId, quantity, selectedVariants, price) ==
  LET hits == {i \in 1..Len(cart.items) :
                 SameSelection(cart.items[i], productId, selectedVariants)}
  IN IF hits # {}
     THEN LET k == CHOOSE i \in hits : \A j \in hits : i <= j
          IN [cart EXCEPT !.items[k].quantity = @ + quantity]
     ELSE [cart EXCEPT !.items = Append(@, [product |-> productId,
                                            quantity |-> quantity,
                                            selectedVariants |-> selectedVariants,
                                            price |-> price])]

\* cartSchema.methods.clearCart
ClearCart(cart) == [cart EXCEPT !.items = << >>, !.couponCode = NoCoupon, !.discount = 0]

\* cartSchema.methods.applyCoupon
CartApplyCoupon(cart, code, amount) == [cart EXCEPT !.couponCode = code, !.discount = amount]

\* Mutant of AddItem: the stock is not compared with the requested quantity.
AddItemNoStockCheck(u, p, quantity, selected) ==
  LET product == products[p]
      validated == ValidatedVariants(p, selected)
      itemPrice == product.price + SumMods(validated)
      cart2 == CartAddItem(carts[u], p, quantity, validated, itemPrice)
  IN /\ CartTotalItems(cart2) <= MaxCartQty
     /\ IF ~product.exists
        THEN /\ last' = Resp("cart.add", 0, 404)
             /\ UNCHANGED carts
        ELSE IF product.status # "active"
        THEN /\ last' = Resp("cart.add", 0, 400)
             /\ UNCHANGED carts
        ELSE /\ carts' = [carts EXCEPT ![u] = cart2]
             /\ last' = Resp("cart.add", 0, 200)
     /\ UNCHANGED <<products, orders, intents, req, handled, categories, reviewReq>>

\* POST /cart/items
AddItem(u, p, quantity, selected) ==
  LET product == products[p]
      validated == ValidatedVariants(p, selected)
      itemPrice == product.price + SumMods(validated)
      cart2 == CartAddItem(carts[u], p, quantity, validated, itemPrice)
  IN /\ CartTotalItems(cart2) <= MaxCartQty
     /\ IF ~product.exists
        THEN /\ last' = Resp("cart.add", 0, 404)
             /\ UNCHANGED carts
        ELSE IF product.status # "active"
        THEN /\ last' = Resp("cart.add", 0, 400)
             /\ UNCHANGED carts
        ELSE IF product.trackQuantity /\ product.quantity < quantity
        THEN /\ last' = Resp("cart.add", 0, 400)
             /\ UNCHANGED carts
        ELSE /\ carts' = [carts EXCEPT ![u] = cart2]
             /\ last' = Resp("cart.add", 0, 200)
     /\ UNCHANGED <<products, orders, intents, req, handled, categories, reviewReq>>

\* cartSchema.methods.removeItem: items.pull(itemId); the line is addressed by
\* its position
CartRemoveItem(cart, k) ==
  [cart EXCEPT !.items = SubSeq(@, 1, k - 1) \o SubSeq(@, k + 1, Len(@))]

\* DELETE /cart/items/:itemId
RemoveItem(u, k) ==
  /\ IF k \in 1..Len(carts[u].items)
     THEN /\ carts' = [carts EXCEPT ![u] = CartRemoveItem(@, k)]
          /\ last' = Resp("cart.remove", 0, 200)
     ELSE /\ last' = Resp("cart.remove", 0, 404)
          /\ UNCHANGED carts
  /\ UNCHANGED <<products, orders, intents, req, handled, categories, reviewReq>>

\* Outcomes of a direct call of a model method: the promise resolved, or the
\* method threw Error('Item not found in cart').
Resolved == 0
ItemNotFound == 1

\* Mutant of CartUpdateItemQuantity: a quantity <= 0 is written to the line
\* instead of removing it.
CartUpdateItemQuantityNoPull(cart, k, quantity) ==
  IF k \in 1..Len(cart.items)
  THEN [found |-> TRUE, cart |-> [cart EXCEPT !.items[k].quantity = quantity]]
  ELSE [found |-> FALSE, cart |-> cart]

\* cartSchema.methods.updateItemQuantity; found = FALSE: the method throws
CartUpdateItemQuantity(cart, k, quantity) ==
  IF k \in 1..Len(cart.items)
  THEN [found |-> TRUE,
        cart |-> IF quantity <= 0
                 THEN [cart EXCEPT !.items = SubSeq(@, 1, k - 1) \o SubSeq(@, k + 1, Len(@))]
                 ELSE [cart EXCEPT !.items[k].quantity = quantity]]
  ELSE [found |-> FALSE, cart |-> cart]

\* cart.updateItemQuantity(itemId, quantity) called on the stored cart of u,
\* without the checks of the route
CallUpdateItemQuantity(u, k, quantity) ==
  LET r == CartUpdateItemQuantity(carts[u], k, quantity)
  IN /\ CartTotalItems(r.cart) <= MaxCartQty
     /\ carts' = [carts EXCEPT ![u] = r.cart]
     /\ last' = Resp("Cart.updateItemQuantity", k, IF r.found THEN Resolved ELSE ItemNotFound)
     /\ UNCHANGED <<products, orders, intents, req, handled, categories, reviewReq>>

\* PUT /cart/items/:itemId
UpdateItemQuantity(u, k, quantity) ==
  LET cart == carts[u]
      product == products[cart.items[k].product]
      r == CartUpdateItemQuantity(cart, k, quantity)
  IN /\ quantity > 99 \/ CartTotalItems(r.cart) <= MaxCartQty
     /\ IF quantity = 0 \/ quantity < 1
        THEN /\ last' = Resp("cart.update", k, 400)
             /\ UNCHANGED carts
        ELSE IF quantity > 99
        THEN /\ last' = Resp("cart.update", k, 400)
             /\ UNCHANGED carts
        ELSE IF k \notin 1..Len(cart.items)
        THEN /\ last' = Resp("cart.update", k, 404)
             /\ UNCHANGED carts
        ELSE IF ~product.exists \/ product.status # "active"
        THEN /\ last' = Resp("cart.update", k, 400)
             /\ UNCHANGED carts
        ELSE IF product.trackQuantity /\ product.quantity < quantity
        THEN /\ last' = Resp("cart.update", k, 400)
             /\ UNCHANGED carts
        ELSE /\ carts' = [carts EXCEPT ![u] = r.cart]
             /\ last' = Resp("cart.update", k, 200)
     /\ UNCHANGED <<products, orders, intents, req, handled, categories, reviewReq>>

\* cartSchema.methods.removeCoupon
CartRemoveCoupon(cart) == [cart EXCEPT !.couponCode = NoCoupon, !.discount = 0]

\* DELETE /cart/coupon
RemoveCoupon(u) ==
  /\ carts' = [carts EXCEPT ![u] = CartRemoveCoupon(@)]
  /\ last' = Resp("cart.uncoupon", 0, 200)
  /\ UNCHANGED <<products, orders, intents, req, handled, categories, reviewReq>>

\* DELETE /cart
ClearCartItems(u) ==
  /\ carts' = [carts EXCEPT ![u] = ClearCart(@)]
  /\ last' = Resp("cart.clear", 0, 200)
  /\ UNCHANGED <<products, orders, intents, req, handled, categories, reviewReq>>

\* Mutant of CouponDiscount: the percentage is cut to whole cents, not rounded.
CouponDiscountTruncating(coupon, subtotal) ==
  LET amount == IF coupon.type = "percentage"
                THEN (subtotal * coupon.value) \div 100
                ELSE coupon.value
  IN Min(amount, subtotal)

\* couponCode.toUpperCase(), on the codes the requests carry
ToUpperCase(code) ==
  IF code = "save10" THEN "SAVE10"
  ELSE IF code = "freeship" THEN "FREESHIP"
  ELSE code

\* The discount POST /cart/apply-coupon computes for a known coupon.
CouponDiscount(coupon, subtotal) ==
  LET amount == IF coupon.type = "percentage"
                THEN RoundDiv(subtotal * coupon.value, 100)
                ELSE coupon.value
  IN Min(amount, subtotal)

\* POST /cart/apply-coupon
ApplyCoupon(u, couponCode) ==
  LET cart == carts[u]
      subtotal == CartSubtotal(cart)
      code == ToUpperCase(couponCode)
  IN /\ IF Len(cart.items) = 0
        THEN /\ last' = Resp("cart.coupon", 0, 400)
             /\ UNCHANGED carts
        ELSE IF code \notin DOMAIN DemoCoupons
        THEN /\ last' = Resp("cart.coupon", 0, 400)
             /\ UNCHANGED carts
        ELSE IF subtotal < DemoCoupons[code].minAmount
        THEN /\ last' = Resp("cart.coupon", 0, 400)
             /\ UNCHANGED carts
        ELSE /\ carts' = [carts EXCEPT ![u] =
                            CartApplyCoupon(cart, code, CouponDiscount(DemoCoupons[code], subtotal))]
             /\ last' = Resp("cart.coupon", 0, 200)
     /\ UNCHANGED <<products, orders, intents, req, handled, categories, reviewReq>>

RECURSIVE CartIssues(_, _)
\* POST /cart/validate: the types of the issues found, line by line
CartIssues(items, prods) ==
  IF items = << >> THEN << >>
  ELSE LET item == Head(items)
           product == prods[item.product]
           short == product.trackQuantity /\ product.quantity < item.quantity
           currentPrice == product.price + SumMods(item.selectedVariants)
           here ==
             IF ~product.exists THEN << "product_not_found" >>
             ELSE IF product.status # "active" THEN << "product_inactive" >>
             ELSE IF short /\ product.quantity = 0 THEN << "out_of_stock" >>
             ELSE (IF short THEN << "insufficient_stock" >> ELSE << >>)
                    \o (IF currentPrice # item.price THEN << "price_changed" >> ELSE << >>)
       IN here \o CartIssues(Tail(items), prods)

\* Mutant of ValidateCart: the lines that raised an issue are dropped from the
\* stored cart.
ValidateCartPruning(u) ==
  LET cart == carts[u]
      issues == CartIssues(cart.items, products)
      Sound(item) == CartIssues(<< item >>, products) = << >>
  IN /\ carts' = [carts EXCEPT ![u].items = SelectSeq(@, Sound)]
     /\ last' = Resp("cart.validate", Len(issues), 200)
     /\ UNCHANGED <<products, orders, intents, req, handled, categories, reviewReq>>

\* POST /cart/validate; the response carries the issue list (its length is kept
\* as the response's argument).
ValidateCart(u) ==
  LET cart == carts[u]
      issues == CartIssues(cart.items, products)
  IN /\ last' = Resp("cart.validate", Len(issues), 200)
     /\ UNCHANGED <<products, carts, orders, intents, req, handled, categories, reviewReq>>

(***************************************************************************)
(* Order aggregate: models/Order.js.                                       *)
(***************************************************************************)
\* Mutant of UpdateStatus: the history entry is pushed, the status is not set.
UpdateStatusHistoryOnly(order, newStatus, note, updatedBy) ==
  [order EXCEPT !.statusHistory = Append(@, [status |-> newStatus, note |-> note,
                                              updatedBy |-> updatedBy])]

\* orderSchema.methods.updateStatus: push a history entry, then set the status
UpdateStatus(order, newStatus, note, updatedBy) ==
  [order EXCEPT !.statusHistory = Append(@, [status |-> newStatus, note |-> note,
                                              updatedBy |-> updatedBy]),
                !.status = newStatus]

\* orderSchema.methods.markAsPaid
MarkAsPaid(order, transactionId) ==
  UpdateStatus([order EXCEPT !.payment.status = "completed",
                             !.payment.transactionId = transactionId,
                             !.payment.paidAt = @ + 1],
               "confirmed", "Payment received", NoUser)

\* Mutant of PreSaveOrder: the order number is generated on every save.
PreSaveOrderAlways(order, isNew, fresh) == [order EXCEPT !.orderNumber = fresh]

\* orderSchema.pre('save'): the order number is generated for a new document only
PreSaveOrder(order, isNew, fresh) ==
  IF isNew THEN [order EXCEPT !.orderNumber = fresh] ELSE order

\* order.save() of a loaded document
SaveOrder(order) == PreSaveOrder(order, FALSE, order.orderNumber + 1)

\* The schema's validators that can reject the document POST /orders builds:
\* pricing.total has min 0 (the other minimums hold by construction).
OrderValid(order) == order.pricing.total >= 0

RECURSIVE IncInventoryByOne(_, _, _)
\* Mutant of IncInventory: every line moves the stock by one unit.
IncInventoryByOne(prods, items, sign) ==
  IF items = << >> THEN prods
  ELSE LET it == Head(items)
           prods2 == IF prods[it.product].exists
                     THEN [prods EXCEPT ![it.product].quantity = @ + sign]
                     ELSE prods
       IN IncInventoryByOne(prods2, Tail(items), sign)

RECURSIVE IncInventory(_, _, _)
\* for (const item of items) Product.findByIdAndUpdate(item.product,
\*   { $inc: { 'inventory.quantity': sign * item.quantity } })
\* findByIdAndUpdate runs no validators and does nothing for a deleted product.
IncInventory(prods, items, sign) ==
  IF items = << >> THEN prods
  ELSE LET it == Head(items)
           prods2 == IF prods[it.product].exists
                     THEN [prods EXCEPT ![it.product].quantity = @ + sign * it.quantity]
                     ELSE prods
       IN IncInventory(prods2, Tail(items), sign)

(***************************************************************************)
(* POST /orders.  The handler awaits the cart read, the order save, one    *)
(* inventory update per line and the cart save; other requests run between *)
(* these steps.                                                            *)
(***************************************************************************)
\* Mutant of FirstBadLine: the product's status is not checked.
FirstBadLineNoStatus(cart, prods) ==
  LET bad == {i \in 1..Len(cart.items) :
                LET product == prods[cart.items[i].product]
                IN \/ ~product.exists
                   \/ product.trackQuantity /\ product.quantity < cart.items[i].quantity}
  IN IF bad = {} THEN 0 ELSE CHOOSE i \in bad : \A j \in bad : i <= j

\* The first line of the cart that fails the validation loop, 0 if none.
FirstBadLine(cart, prods) ==
  LET bad == {i \in 1..Len(cart.items) :
                LET product == prods[cart.items[i].product]
                IN \/ ~product.exists
                   \/ product.status # "active"
                   \/ product.trackQuantity /\ product.quantity < cart.items[i].quantity}
  IN IF bad = {} THEN 0 ELSE CHOOSE i \in bad : \A j \in bad : i <= j

\* orderItems: the snapshot of the cart's lines at the current catalogue price
OrderItems(cart, prods) ==
  [i \in 1..Len(cart.items) |->
     [product |-> cart.items[i].product,
      price |-> prods[cart.items[i].product].price + SumMods(cart.items[i].selectedVariants),
      quantity |-> cart.items[i].quantity,
      selectedVariants |-> cart.items[i].selectedVariants]]

ItemsSubtotal(items) ==
  SeqSum([i \in 1..Len(items) |-> items[i].price * items[i].quantity])

\* Mutant of Pricing: the tax is taken on the subtotal without the shipping.
PricingTaxOnSubtotal(subtotal, cartDiscount) ==
  LET shipping == IF subtotal >= FreeShippingThreshold THEN 0 ELSE FlatShipping
      tax == RoundDiv(subtotal * TaxRatePerMille, 1000)
  IN [subtotal |-> subtotal, shipping |-> shipping, tax |-> tax,
      discount |-> cartDiscount,
      total |-> subtotal + shipping + tax - cartDiscount]

\* shipping, tax, discount and total of POST /orders
Pricing(subtotal, cartDiscount) ==
  LET shipping == IF subtotal >= FreeShippingThreshold THEN 0 ELSE FlatShipping
      tax == RoundDiv((subtotal + shipping) * TaxRatePerMille, 1000)
  IN [subtotal |-> subtotal, shipping |-> shipping, tax |-> tax,
      discount |-> cartDiscount,
      total |-> subtotal + shipping + tax - cartDiscount]

\* new Order({...}) with the schema's defaults
NewOrder(u, items, pricing, couponCode) ==
  [user |-> u, orderNumber |-> 0, items |-> items, pricing |-> pricing,
   couponCode |-> couponCode,
   payment |-> [status |-> "pending", transactionId |-> 0, paidAt |-> 0,
                paymentIntentId |-> 0],
   status |-> "pending", statusHistory |-> << >>,
   tracking |-> [trackingNumber |-> FALSE, actualDelivery |-> 0]]

InFlight == {u \in Users : req[u].pc # "idle"}

\* Cart.findOne().populate(), the validation loop, the pricing and new Order()
CreateOrderBegin(u, cap) ==
  LET cart == carts[u]
      items == OrderItems(cart, products)
  IN /\ req[u].pc = "idle"
     /\ Len(orders) + Cardinality(InFlight) < cap
     /\ IF Len(cart.items) = 0
        THEN /\ last' = Resp("order.create", 0, 400)
             /\ UNCHANGED req
        ELSE IF FirstBadLine(cart, products) # 0
        THEN /\ last' = Resp("order.create", 0, 400)
             /\ UNCHANGED req
        ELSE /\ req' = [req EXCEPT ![u] =
                          [pc |-> "save", k |-> 1, id |-> 0,
                           order |-> NewOrder(u, items,
                                              Pricing(ItemsSubtotal(items), cart.discount),
                                              cart.couponCode)]]
             /\ last' = Resp("order.step", 0, 0)
     /\ UNCHANGED <<products, carts, orders, intents, handled, categories, reviewReq>>

\* await order.save()
CreateOrderSave(u) ==
  /\ req[u].pc = "save"
  /\ IF OrderValid(req[u].order)
     THEN /\ orders' = Append(orders, PreSaveOrder(req[u].order, TRUE, Len(orders) + 1))
          /\ req' = [req EXCEPT ![u].pc = IF Len(req[u].order.items) = 0 THEN "clear" ELSE "inc",
                                ![u].id = Len(orders) + 1]
          /\ last' = Resp("order.step", 0, 0)
     ELSE /\ req' = [req EXCEPT ![u] = Idle]
          /\ last' = Resp("order.create", 0, 500)
          /\ UNCHANGED orders
  /\ UNCHANGED <<products, carts, intents, handled, categories, reviewReq>>

\* One line's await Product.findByIdAndUpdate(item.product, { $inc: ... })
CreateOrderInc(u) ==
  LET items == req[u].order.items
      k == req[u].k
  IN /\ req[u].pc = "inc"
     /\ products' = IncInventory(products, << items[k] >>, -1)
     /\ req' = [req EXCEPT ![u].k = k + 1,
                           ![u].pc = IF k = Len(items) THEN "clear" ELSE "inc"]
     /\ last' = Resp("order.step", 0, 0)
     /\ UNCHANGED <<carts, orders, intents, handled, categories, reviewReq>>

\* await cart.clearCart() and the 201 response
CreateOrderClear(u) ==
  /\ req[u].pc = "clear"
  /\ carts' = [carts EXCEPT ![u] = ClearCart(@)]
  /\ req' = [req EXCEPT ![u] = Idle]
  /\ last' = Resp("order.create", req[u].id, 201)
  /\ UNCHANGED <<products, orders, intents, handled, categories, reviewReq>>

(***************************************************************************)
(* Catalogue administration: routes/products.js.                           *)
(***************************************************************************)
\* PUT /products/:id with { status }
AdminSetProductStatus(p, status) ==
  /\ IF products[p].exists
     THEN /\ products' = [products EXCEPT ![p].status = status]
          /\ last' = Resp("product.update", 0, 200)
     ELSE /\ last' = Resp("product.update", 0, 404)
          /\ UNCHANGED products
  /\ UNCHANGED <<carts, orders, intents, req, handled, categories, reviewReq>>

\* PUT /products/:id with { price }
AdminSetProductPrice(p, price) ==
  /\ IF products[p].exists
     THEN /\ products' = [products EXCEPT ![p].price = price]
          /\ last' = Resp("product.update", 0, 200)
     ELSE /\ last' = Resp("product.update", 0, 404)
          /\ UNCHANGED products
  /\ UNCHANGED <<carts, orders, intents, req, handled, categories, reviewReq>>

\* PUT /products/:id with { inventory: { quantity } } (runValidators: min 0)
AdminSetProductStock(p, quantity) ==
  /\ IF quantity < 0
     THEN /\ last' = Resp("product.update", 0, 400)
          /\ UNCHANGED products
     ELSE IF products[p].exists
     THEN /\ products' = [products EXCEPT ![p].quantity = quantity]
          /\ last' = Resp("product.update", 0, 200)
     ELSE /\ last' = Resp("product.update", 0, 404)
          /\ UNCHANGED products
  /\ UNCHANGED <<carts, orders, intents, req, handled, categories, reviewReq>>

\* DELETE /products/:id
AdminDeleteProduct(p) ==
  /\ IF products[p].exists
     THEN /\ products' = [products EXCEPT ![p].exists = FALSE]
          /\ last' = Resp("product.delete", 0, 200)
     ELSE /\ last' = Resp("product.delete", 0, 404)
          /\ UNCHANGED products
  /\ UNCHANGED <<carts, orders, intents, req, handled, categories, reviewReq>>

(***************************************************************************)
(* Order fulfilment: routes/orders.js.  The order addressed exists (the    *)
(* 404 branch for an unknown id changes nothing).                          *)
(***************************************************************************)
OrderIds == 1..Len(orders)

\* PUT /orders/:id/status
AdminUpdateStatus(caller, o, status) ==
  LET order == orders[o]
      updated == UpdateStatus(order, status, "admin", caller)
      restore == status = "cancelled" /\ updated.payment.status = "completed"
      stamped == IF status = "delivered"
                 THEN [updated EXCEPT !.tracking.actualDelivery = @ + 1]
                 ELSE updated
  IN /\ o \in OrderIds
     /\ Len(updated.statusHistory) <= MaxHistory
     /\ IF caller # Admin
        THEN /\ last' = Resp("order.status", o, 403)
             /\ UNCHANGED <<orders, products>>
        ELSE IF status \notin ValidStatuses
        THEN /\ last' = Resp("order.status", o, 400)
             /\ UNCHANGED <<orders, products>>
        ELSE /\ products' = IF restore THEN IncInventory(products, order.items, 1)
                            ELSE products
             /\ orders' = [orders EXCEPT ![o] = SaveOrder(stamped)]
             /\ last' = Resp("order.status", o, 200)
     /\ UNCHANGED <<carts, intents, req, handled, categories, reviewReq>>

\* Mutant of AdminUpdateTracking: a tracking number ships the order whatever
\* its status is.
AdminUpdateTrackingAnyStatus(caller, o, trackingNumber) ==
  LET order == [orders[o] EXCEPT !.tracking.trackingNumber = trackingNumber]
      ship == trackingNumber
  IN /\ o \in OrderIds
     /\ ship => Len(order.statusHistory) < MaxHistory
     /\ IF caller # Admin
        THEN /\ last' = Resp("order.tracking", o, 403)
             /\ UNCHANGED orders
        ELSE /\ orders' = [orders EXCEPT ![o] =
                             IF ship
                             THEN SaveOrder(UpdateStatus(order, "shipped",
                                                         "Tracking information added", caller))
                             ELSE order]
             /\ last' = Resp("order.tracking", o, 200)
     /\ UNCHANGED <<products, carts, intents, req, handled, categories, reviewReq>>

\* PUT /orders/:id/tracking
AdminUpdateTracking(caller, o, trackingNumber) ==
  LET order == [orders[o] EXCEPT !.tracking.trackingNumber = trackingNumber]
      ship == trackingNumber /\ order.status = "processing"
  IN /\ o \in OrderIds
     /\ ship => Len(order.statusHistory) < MaxHistory
     /\ IF caller # Admin
        THEN /\ last' = Resp("order.tracking", o, 403)
             /\ UNCHANGED orders
        ELSE /\ orders' = [orders EXCEPT ![o] =
                             IF ship
                             THEN SaveOrder(UpdateStatus(order, "shipped",
                                                         "Tracking information added", caller))
                             ELSE order]
             /\ last' = Resp("order.tracking", o, 200)
     /\ UNCHANGED <<products, carts, intents, req, handled, categories, reviewReq>>

\* Mutant of CancelOrder: the query is not narrowed to the caller's own orders.
CancelOrderAnyUser(caller, o) ==
  LET order == orders[o]
      updated == UpdateStatus(order, "cancelled", "Cancelled by user", caller)
  IN /\ o \in OrderIds
     /\ order.status \in CancelableStatuses => Len(order.statusHistory) < MaxHistory
     /\ IF order.status \notin CancelableStatuses
        THEN /\ last' = Resp("order.cancel", o, 400)
             /\ UNCHANGED <<orders, products>>
        ELSE /\ products' = IF updated.payment.status = "completed"
                            THEN IncInventory(products, order.items, 1)
                            ELSE products
             /\ orders' = [orders EXCEPT ![o] = SaveOrder(updated)]
             /\ last' = Resp("order.cancel", o, 200)
     /\ UNCHANGED <<carts, intents, req, handled, categories, reviewReq>>

\* POST /orders/:id/cancel
CancelOrder(caller, o) ==
  LET order == orders[o]
      updated == UpdateStatus(order, "cancelled", "Cancelled by user", caller)
  IN /\ o \in OrderIds
     /\ order.status \in CancelableStatuses => Len(order.statusHistory) < MaxHistory
     /\ IF caller # Admin /\ order.user # caller
        THEN /\ last' = Resp("order.cancel", o, 404)
             /\ UNCHANGED <<orders, products>>
        ELSE IF order.status \notin CancelableStatuses
        THEN /\ last' = Resp("order.cancel", o, 400)
             /\ UNCHANGED <<orders, products>>
        ELSE /\ products' = IF updated.payment.status = "completed"
                            THEN IncInventory(products, order.items, 1)
                            ELSE products
             /\ orders' = [orders EXCEPT ![o] = SaveOrder(updated)]
             /\ last' = Resp("order.cancel", o, 200)
     /\ UNCHANGED <<carts, intents, req, handled, categories, reviewReq>>

(***************************************************************************)
(* Product reviews: routes/products.js and models/Product.js.  A rating    *)
(* average is kept in tenths.                                              *)
(***************************************************************************)
\* productSchema.methods.updateRating, on a review list
UpdateRating(reviews) ==
  IF Len(reviews) = 0
  THEN [average |-> 0, count |-> 0]
  ELSE [average |-> RoundDiv(10 * SeqSum([i \in 1..Len(reviews) |-> reviews[i].rating]),
                             Len(reviews)),
        count |-> Len(reviews)]

\* The review requests that have loaded product p and not yet saved it.
ReviewsInFlight(p) ==
  {s \in ReviewSlots : reviewReq[s].pc = "loaded" /\ reviewReq[s].product = p}

\* POST /products/:id/reviews with { rating, comment }, up to the push onto the
\* loaded document: the checks, Product.findById and the search for a review
\* by the caller
ReviewBegin(s, u, p, rating) ==
  /\ reviewReq[s] = Idle
  /\ Len(products[p].reviews) + Cardinality(ReviewsInFlight(p)) < MaxReviews
  /\ IF rating = 0
     THEN /\ last' = Resp("review", 0, 400)
          /\ UNCHANGED reviewReq
     ELSE IF rating < 1 \/ rating > 5
     THEN /\ last' = Resp("review", 0, 400)
          /\ UNCHANGED reviewReq
     ELSE IF ~products[p].exists
     THEN /\ last' = Resp("review", 0, 404)
          /\ UNCHANGED reviewReq
     ELSE IF \E i \in 1..Len(products[p].reviews) : products[p].reviews[i].user = u
     THEN /\ last' = Resp("review", 0, 400)
          /\ UNCHANGED reviewReq
     ELSE /\ reviewReq' = [reviewReq EXCEPT ![s] =
                             [pc |-> "loaded", user |-> u, product |-> p,
                              reviews |-> Append(products[p].reviews,
                                                 [user |-> u, rating |-> rating])]]
          /\ last' = Resp("review.load", 0, 0)
  /\ UNCHANGED <<products, carts, orders, intents, req, handled, categories>>

\* product.save() of the request in slot s: the pre('save') hook sets the rating
\* from the loaded list with the new review; the update pushes the new review
\* onto the stored list and sets the stored rating
ReviewSave(s) ==
  LET frame == reviewReq[s]
      p == frame.product
      review == frame.reviews[Len(frame.reviews)]
  IN /\ frame.pc = "loaded"
     /\ IF ~products[p].exists
        THEN /\ last' = Resp("review", 0, 500)
             /\ UNCHANGED products
        ELSE /\ products' = [products EXCEPT ![p].reviews = Append(@, review),
                                             ![p].rating = UpdateRating(frame.reviews)]
             /\ last' = Resp("review", 0, 201)
     /\ reviewReq' = [reviewReq EXCEPT ![s] = Idle]
     /\ UNCHANGED <<carts, orders, intents, req, handled, categories>>

(***************************************************************************)
(* Category catalogue: the Category model and routes/categories.js.        *)
(* A string is a sequence of characters; a path is the sequence of the     *)
(* segments its '/' separate.                                              *)
(***************************************************************************)
Apparel == << "A", "p", "p", "a", "r", "e", "l" >>
Shoes == << "S", "h", "o", "e", "s" >>
KidsShoes == << "K", "i", "d", "s", " ", "S", "h", "o", "e", "s" >>
ShoesSale == << "s", "h", "o", "e", "s", " ", "-", " ", "5", "0", "%" >>
\* The names the category requests carry.
CategoryNames == {Apparel, Shoes, KidsShoes, ShoesSale}

\* String.prototype.toLowerCase, one character
LowerChar(c) ==
  CASE c = "A" -> "a"
    [] c = "K" -> "k"
    [] c = "S" -> "s"
    [] OTHER -> c

\* The characters of the class [a-z0-9\s-] that occur in the names
SlugChars ==
  {"a", "d", "e", "h", "i", "k", "l", "o", "p", "r", "s", "0", "5", " ", "-"}

RECURSIVE TrimLeft(_)
TrimLeft(s) == IF s # << >> /\ Head(s) = " " THEN TrimLeft(Tail(s)) ELSE s

RECURSIVE TrimRight(_)
TrimRight(s) ==
  IF s # << >> /\ s[Len(s)] = " " THEN TrimRight(SubSeq(s, 1, Len(s) - 1)) ELSE s

\* String.prototype.trim
Trim(s) == TrimRight(TrimLeft(s))

RECURSIVE SquashRuns(_, _)
\* replace(/c+/g, '-'): every maximal run of the character c becomes one hyphen
SquashRuns(s, c) ==
  IF s = << >> THEN << >>
  ELSE IF Head(s) # c THEN << Head(s) >> \o SquashRuns(Tail(s), c)
  ELSE IF Len(s) > 1 /\ s[2] = c THEN SquashRuns(Tail(s), c)
  ELSE << "-" >> \o SquashRuns(Tail(s), c)

\* replace(/^-|-$/g, ''): one leading and one trailing hyphen are removed
StripHyphens(s) ==
  LET t == IF s # << >> /\ Head(s) = "-" THEN Tail(s) ELSE s
  IN IF t # << >> /\ t[Len(t)] = "-" THEN SubSeq(t, 1, Len(t) - 1) ELSE t

\* The slug the pre('save') hook derives from a name
Slugify(name) ==
  LET lower == [i \in 1..Len(name) |-> LowerChar(name[i])]
      kept == SelectSeq(Trim(lower), LAMBDA c : c \in SlugChars)
  IN StripHyphens(SquashRuns(SquashRuns(kept, " "), "-"))

CategoryIds == 1..Len(categories)

\* Category.findById(id): whether a document is found
CategoryFound(id) == id \in CategoryIds /\ categories[id].exists

\* The two pre('save') hooks run on a new document: slug from the name, level
\* and path from the parent if it is found
NewCategory(name, parent) ==
  LET slug == Slugify(name)
      base == [exists |-> TRUE, name |-> name, slug |-> slug, parent |-> parent,
               level |-> 0, path |-> << >>]
  IN IF parent # NoParent
     THEN IF CategoryFound(parent)
          THEN [base EXCEPT !.level = categories[parent].level + 1,
                            !.path = IF categories[parent].path # << >>
                                     THEN categories[parent].path \o << slug >>
                                     ELSE << slug >>]
          ELSE base
     ELSE [base EXCEPT !.level = 0, !.path = << slug >>]

\* POST /categories with { name, parent } and, if slugInBody, some slug; without
\* one the document fails validation (slug is required) before the hooks run
CreateCategory(name, parent, slugInBody) ==
  LET doc == NewCategory(name, parent)
  IN /\ Len(categories) < MaxCategories
     /\ parent \in {NoParent} \cup CategoryIds
     /\ IF ~slugInBody
        THEN /\ last' = Resp("category.create", 0, 500)
             /\ UNCHANGED categories
        ELSE IF \E c \in CategoryIds :
                  /\ categories[c].exists
                  /\ categories[c].name = name \/ categories[c].slug = doc.slug
        THEN /\ last' = Resp("category.create", 0, 400)
             /\ UNCHANGED categories
        ELSE /\ categories' = Append(categories, doc)
             /\ last' = Resp("category.create", Len(categories) + 1, 201)
     /\ UNCHANGED <<products, carts, orders, intents, req, handled, reviewReq>>

\* PUT /categories/:id with a body that carries name, parent or both:
\* findByIdAndUpdate($set) writes the given fields; no save hook runs
UpdateCategory(id, body) ==
  LET doc == categories[id]
      named == IF "name" \in DOMAIN body THEN [doc EXCEPT !.name = body.name] ELSE doc
      moved == IF "parent" \in DOMAIN body THEN [named EXCEPT !.parent = body.parent] ELSE named
  IN /\ "parent" \in DOMAIN body => body.parent \in {NoParent} \cup CategoryIds
     /\ IF ~CategoryFound(id)
        THEN /\ last' = Resp("category.update", id, 404)
             /\ UNCHANGED categories
        ELSE IF "name" \in DOMAIN body
                /\ \E c \in CategoryIds \ {id} :
                     categories[c].exists /\ categories[c].name = body.name
        THEN /\ last' = Resp("category.update", id, 500)
             /\ UNCHANGED categories
        ELSE /\ categories' = [categories EXCEPT ![id] = moved]
             /\ last' = Resp("category.update", id, 200)
     /\ UNCHANGED <<products, carts, orders, intents, req, handled, reviewReq>>

\* DELETE /categories/:id (no product is assigned to a category)
DeleteCategory(id) ==
  /\ IF ~CategoryFound(id)
     THEN /\ last' = Resp("category.delete", id, 404)
          /\ UNCHANGED categories
     ELSE IF \E c \in CategoryIds : categories[c].exists /\ categories[c].parent = id
     THEN /\ last' = Resp("category.delete", id, 400)
          /\ UNCHANGED categories
     ELSE /\ categories' = [categories EXCEPT ![id].exists = FALSE]
          /\ last' = Resp("category.delete", id, 200)
  /\ UNCHANGED <<products, carts, orders, intents, req, handled, reviewReq>>

(***************************************************************************)
(* Payment adapter: routes/payment.js, and the payment provider.           *)
(***************************************************************************)
IntentIds == 1..Len(intents)

\* POST /payment/stripe/create-intent
CreateIntent(caller, o) ==
  LET order == orders[o]
      id == Len(intents) + 1
  IN /\ o \in OrderIds
     /\ Len(intents) < MaxIntents
     /\ IF caller # Admin /\ order.user # caller
        THEN /\ last' = Resp("payment.intent", o, 403)
             /\ UNCHANGED <<orders, intents>>
        ELSE IF order.payment.status = "completed"
        THEN /\ last' = Resp("payment.intent", o, 400)
             /\ UNCHANGED <<orders, intents>>
        ELSE IF order.status = "cancelled"
        THEN /\ last' = Resp("payment.intent", o, 400)
             /\ UNCHANGED <<orders, intents>>
        ELSE /\ intents' = Append(intents, [order |-> o, status |-> "open", failed |-> FALSE])
             /\ orders' = [orders EXCEPT ![o] =
                             SaveOrder([order EXCEPT !.payment.paymentIntentId = id,
                                                     !.payment.status = "processing"])]
             /\ last' = Resp("payment.intent", o, 200)
     /\ UNCHANGED <<products, carts, req, handled, categories, reviewReq>>

\* The provider: the customer's payment of an open intent succeeds
\* (the provider emits payment_intent.succeeded).
ProviderSucceeds(i) ==
  /\ i \in IntentIds
  /\ intents[i].status = "open"
  /\ intents' = [intents EXCEPT ![i].status = "succeeded"]
  /\ last' = Resp("provider", i, 0)
  /\ UNCHANGED <<products, carts, orders, req, handled, categories, reviewReq>>

\* The provider: a payment attempt on an open intent fails; the intent stays
\* open for another attempt (the provider emits payment_intent.payment_failed).
ProviderFails(i) ==
  /\ i \in IntentIds
  /\ intents[i].status = "open"
  /\ ~intents[i].failed
  /\ intents' = [intents EXCEPT ![i].failed = TRUE]
  /\ last' = Resp("provider", i, 0)
  /\ UNCHANGED <<products, carts, orders, req, handled, categories, reviewReq>>

\* The update both reconciliation paths apply on a failed payment
PaymentFailed(order) ==
  UpdateStatus([order EXCEPT !.payment.status = "failed"], "pending", "Payment failed", NoUser)

\* The order POST /payment/stripe/confirm leaves for an intent in the given
\* provider status
ConfirmEffect(order, i, intentStatus) ==
  IF intentStatus = "succeeded"
  THEN SaveOrder(MarkAsPaid(order, i))
  ELSE SaveOrder(PaymentFailed(order))

\* POST /payment/stripe/confirm
ConfirmPayment(caller, i) ==
  LET o == intents[i].order
      order == orders[o]
  IN /\ i \in IntentIds
     /\ Len(order.statusHistory) < MaxHistory
     /\ IF caller # Admin /\ order.user # caller
        THEN /\ last' = Resp("payment.confirm", i, 403)
             /\ UNCHANGED orders
        ELSE /\ orders' = [orders EXCEPT ![o] = ConfirmEffect(order, i, intents[i].status)]
             /\ last' = Resp("payment.confirm", i,
                             IF intents[i].status = "succeeded" THEN 200 ELSE 400)
     /\ UNCHANGED <<products, carts, intents, req, handled, categories, reviewReq>>

\* Mutant of WebhookEffect: payment.status is not looked at before markAsPaid.
WebhookEffectUnguarded(order, i, type) ==
  IF type = "payment_intent.succeeded"
  THEN PreSaveOrder(MarkAsPaid(order, i), FALSE, order.orderNumber + 1)
  ELSE IF type = "payment_intent.payment_failed"
  THEN PreSaveOrder(UpdateStatus([order EXCEPT !.payment.status = "failed"],
                                 "pending", "Payment failed", NoUser),
                    FALSE, order.orderNumber + 1)
  ELSE order

\* The order the webhook leaves for a verified event of the given type
WebhookEffect(order, i, type) ==
  IF type = "payment_intent.succeeded"
  THEN IF order.payment.status # "completed"
       THEN SaveOrder(MarkAsPaid(order, i))
       ELSE order
  ELSE IF type = "payment_intent.payment_failed"
  THEN SaveOrder(PaymentFailed(order))
  ELSE order

\* POST /payment/stripe/webhook with a verified payment_intent.succeeded event;
\* the provider may deliver an emitted event late and more than once.
WebhookSucceeded(i) ==
  LET o == intents[i].order
  IN /\ i \in IntentIds
     /\ intents[i].status = "succeeded"
     /\ Len(WebhookEffect(orders[o], i, "payment_intent.succeeded").statusHistory) <= MaxHistory
     /\ orders' = [orders EXCEPT ![o] = WebhookEffect(@, i, "payment_intent.succeeded")]
     /\ handled' = handled \cup {i}
     /\ last' = [Resp("webhook.succeeded", i, 200) EXCEPT !.dup = i \in handled]
     /\ UNCHANGED <<products, carts, intents, req, categories, reviewReq>>

\* POST /payment/stripe/webhook with a verified payment_intent.payment_failed event
WebhookFailed(i) ==
  LET o == intents[i].order
  IN /\ i \in IntentIds
     /\ intents[i].failed
     /\ Len(orders[o].statusHistory) < MaxHistory
     /\ orders' = [orders EXCEPT ![o] = WebhookEffect(@, i, "payment_intent.payment_failed")]
     /\ last' = Resp("webhook.failed", i, 200)
     /\ UNCHANGED <<products, carts, intents, req, handled, categories, reviewReq>>

\* The event types the webhook switches on, and two it has no case for.
HandledEventTypes == {"payment_intent.succeeded", "payment_intent.payment_failed"}
EventTypes == HandledEventTypes \cup {"payment_intent.created", "charge.refunded"}

\* Mutant of WebhookEvent: the event is handled whether or not its signature
\* was verified.
WebhookEventTrusting(i, type, verified) ==
  LET o == intents[i].order
  IN /\ i \in IntentIds
     /\ Len(WebhookEffect(orders[o], i, type).statusHistory) <= MaxHistory
     /\ orders' = [orders EXCEPT ![o] = WebhookEffect(@, i, type)]
     /\ last' = Resp("webhook", i, 200)
     /\ UNCHANGED <<products, carts, intents, req, handled, categories, reviewReq>>

\* POST /payment/stripe/webhook with an event of any type that names the order of
\* intent i; verified = FALSE: stripe.webhooks.constructEvent throws
WebhookEvent(i, type, verified) ==
  LET o == intents[i].order
  IN /\ i \in IntentIds
     /\ IF ~verified
        THEN /\ last' = Resp("webhook", i, 400)
             /\ UNCHANGED orders
        ELSE /\ Len(WebhookEffect(orders[o], i, type).statusHistory) <= MaxHistory
             /\ orders' = [orders EXCEPT ![o] = WebhookEffect(@, i, type)]
             /\ last' = Resp("webhook", i, 200)
     /\ UNCHANGED <<products, carts, intents, req, handled, categories, reviewReq>>

\* POST /payment/refund
Refund(caller, o) ==
  LET order == orders[o]
  IN /\ o \in OrderIds
     /\ order.payment.status = "completed" => Len(order.statusHistory) < MaxHistory
     /\ IF caller # Admin
        THEN /\ last' = Resp("payment.refund", o, 403)
             /\ UNCHANGED orders
        ELSE IF order.payment.status # "completed"
        THEN /\ last' = Resp("payment.refund", o, 400)
             /\ UNCHANGED orders
        ELSE /\ orders' = [orders EXCEPT ![o] =
                             SaveOrder(UpdateStatus([order EXCEPT !.payment.status = "refunded"],
                                                    "returned", "Refunded by admin", caller))]
             /\ last' = Resp("payment.refund", o, 200)
     /\ UNCHANGED <<products, carts, intents, req, handled, categories, reviewReq>>

Selections == {<< >>, << [name |-> "Size", value |-> "L"] >>}

\* The requests of the checkout specification: u1 shops the whole catalogue,
\* u2 competes for p1.
CheckoutAdds ==
  {<<"u1", p, q, sel>> : p \in Products, q \in 1..MaxCartQty, sel \in Selections}
    \cup {<<"u2", "p1", q, << >> >> : q \in 1..MaxCartQty}

CartStep ==
  \/ \E a \in CheckoutAdds : AddItem(a[1], a[2], a[3], a[4])
  \/ ApplyCoupon("u1", "SAVE10")

CheckoutStep(cap) ==
  \/ \E u \in Users : CreateOrderBegin(u, cap)
  \/ \E u \in Users : CreateOrderSave(u)
  \/ \E u \in Users : CreateOrderInc(u)
  \/ \E u \in Users : CreateOrderClear(u)

CatalogueStep ==
  \/ \E status \in {"active", "inactive"} : AdminSetProductStatus("p2", status)
  \/ AdminDeleteProduct("p2")

\* Checkout: two customers fill their carts and order concurrently while the
\* administrator edits the catalogue.
NextCheckout ==
  \/ CartStep
  \/ CheckoutStep(MaxOrders)
  \/ CatalogueStep

SpecCheckout == Init /\ [][NextCheckout]_vars

\* Payment and fulfilment of the orders of customer u1.
PaidAdds == {<<"u1", "p1", 1, << [name |-> "Size", value |-> "L"] >> >>,
             <<"u1", "p2", 1, << >> >>}
PaidStatuses == {"processing", "delivered", "cancelled", "returned"}

FulfilmentStep ==
  \/ \E o \in OrderIds, status \in PaidStatuses : AdminUpdateStatus(Admin, o, status)
  \/ \E o \in OrderIds : AdminUpdateTracking(Admin, o, TRUE)
  \/ \E o \in OrderIds : CancelOrder("u1", o)

PaymentStep ==
  \/ \E o \in OrderIds : CreateIntent("u1", o)
  \/ \E i \in IntentIds : ProviderSucceeds(i)
  \/ \E i \in IntentIds : ProviderFails(i)
  \/ \E i \in IntentIds : ConfirmPayment("u1", i)
  \/ \E i \in IntentIds : WebhookSucceeded(i)
  \/ \E i \in IntentIds : WebhookFailed(i)
  \/ \E o \in OrderIds : Refund(Admin, o)

NextPay ==
  \/ \E a \in PaidAdds : AddItem(a[1], a[2], a[3], a[4])
  \/ CheckoutStep(MaxPaidOrders)
  \/ FulfilmentStep
  \/ PaymentStep
  \/ AdminSetProductPrice("p1", 6000)
  \/ AdminDeleteProduct("p2")

SpecPay == Init /\ [][NextPay]_vars

\* Authorization: every caller tries the status update and the cancel on the
\* orders of customer u1, paid or not.
AuthStatuses == {"processing", "shipped", "cancelled", "refurbished"}

NextAuth ==
  \/ \E a \in PaidAdds : AddItem(a[1], a[2], a[3], a[4])
  \/ CheckoutStep(MaxPaidOrders)
  \/ \E caller \in Callers, o \in OrderIds, status \in AuthStatuses :
       AdminUpdateStatus(caller, o, status)
  \/ \E caller \in Callers, o \in OrderIds : CancelOrder(caller, o)
  \/ \E o \in OrderIds : CreateIntent("u1", o)
  \/ \E i \in IntentIds : ProviderSucceeds(i)
  \/ \E i \in IntentIds : WebhookSucceeded(i)

SpecAuth == Init /\ [][NextAuth]_vars

\* Tracking updates with and without a tracking number, by the administrator
\* and by a customer, on orders in every status the other requests lead to.
TrackingStatuses == {"confirmed", "processing", "shipped", "delivered"}

NextTracking ==
  \/ \E a \in PaidAdds : AddItem(a[1], a[2], a[3], a[4])
  \/ CheckoutStep(MaxPaidOrders)
  \/ \E o \in OrderIds, status \in TrackingStatuses : AdminUpdateStatus(Admin, o, status)
  \/ \E caller \in {Admin, "u1"}, o \in OrderIds, trackingNumber \in BOOLEAN :
       AdminUpdateTracking(caller, o, trackingNumber)
  \/ \E o \in OrderIds : CancelOrder("u1", o)

SpecTracking == Init /\ [][NextTracking]_vars

\* The webhook endpoint under every delivery: the events the provider emitted,
\* forged events of every type (verification fails) and verified events of the
\* types the handler has no case for.
NextWebhook ==
  \/ \E a \in PaidAdds : AddItem(a[1], a[2], a[3], a[4])
  \/ CheckoutStep(MaxPaidOrders)
  \/ \E o \in OrderIds : CreateIntent("u1", o)
  \/ \E i \in IntentIds : ProviderSucceeds(i)
  \/ \E i \in IntentIds : ProviderFails(i)
  \/ \E i \in IntentIds : WebhookSucceeded(i)
  \/ \E i \in IntentIds : WebhookFailed(i)
  \/ \E i \in IntentIds, type \in EventTypes : WebhookEvent(i, type, FALSE)
  \/ \E i \in IntentIds, type \in EventTypes \ HandledEventTypes : WebhookEvent(i, type, TRUE)
  \/ \E o \in OrderIds, status \in PaidStatuses : AdminUpdateStatus(Admin, o, status)

SpecWebhook == Init /\ [][NextWebhook]_vars

\* The bodies of the category update requests: a new name, a new parent (null,
\* or the id of a category that exists or was deleted), or both.
UpdateBodies ==
  [name : CategoryNames] \cup [parent : 0..MaxCategories]
    \cup [name : CategoryNames, parent : 0..MaxCategories]

\* The category catalogue under the administrator's create, update and delete
\* requests.
NextCategory ==
  \/ \E name \in CategoryNames, parent \in 0..MaxCategories, slugInBody \in BOOLEAN :
       CreateCategory(name, parent, slugInBody)
  \/ \E id \in 1..MaxCategories, body \in UpdateBodies : UpdateCategory(id, body)
  \/ \E id \in 1..MaxCategories : DeleteCategory(id)

SpecCategory == Init /\ [][NextCategory]_vars

\* Review submissions by both customers, two of them in progress at a time,
\* while the administrator may delete a product.
ReviewRatings == {0, 2, 5, 6}

NextReview ==
  \/ \E s \in ReviewSlots, u \in Users, p \in Products, rating \in ReviewRatings :
       ReviewBegin(s, u, p, rating)
  \/ \E s \in ReviewSlots : ReviewSave(s)
  \/ AdminDeleteProduct("p2")

SpecReview == Init /\ [][NextReview]_vars

\* The cart of customer u1 alone: selections with repeated and unknown pairs,
\* known and unknown coupon codes, validation, and catalogue edits in between.
CartSelections ==
  {<< >>,
   << [name |-> "Size", value |-> "L"] >>,
   << [name |-> "Size", value |-> "L"], [name |-> "Size", value |-> "L"] >>,
   << [name |-> "Size", value |-> "S"], [name |-> "Size", value |-> "L"] >>,
   << [name |-> "Colour", value |-> "Red"] >>}
CouponCodes == {"save10", "SAVE20", "freeship", "SAVE30"}

NextCart ==
  \/ \E p \in Products, q \in 1..MaxCartQty, sel \in CartSelections : AddItem("u1", p, q, sel)
  \/ \E code \in CouponCodes : ApplyCoupon("u1", code)
  \/ \E k \in 1..MaxCartQty : RemoveItem("u1", k)
  \/ ValidateCart("u1")
  \/ \E price \in Prices : AdminSetProductPrice("p1", price)
  \/ \E q \in 0..1 : AdminSetProductStock("p1", q)
  \/ \E status \in {"active", "inactive"} : AdminSetProductStatus("p2", status)
  \/ AdminDeleteProduct("p2")

SpecCart == Init /\ [][NextCart]_vars

\* The cart of one user under every editing request of routes/cart.js, with a
\* catalogue whose stock and status change.
UpdateQuantities == {-1, 0, 1, 2, 100}

NextCartEdit ==
  \/ \E p \in Products, q \in 1..MaxCartQty, sel \in CartSelections : AddItem("u1", p, q, sel)
  \/ \E k \in 1..MaxCartQty, q \in UpdateQuantities : UpdateItemQuantity("u1", k, q)
  \/ \E k \in 1..MaxCartQty : RemoveItem("u1", k)
  \/ \E code \in CouponCodes : ApplyCoupon("u1", code)
  \/ RemoveCoupon("u1")
  \/ ClearCartItems("u1")
  \/ \E q \in 0..1 : AdminSetProductStock("p1", q)
  \/ \E status \in {"active", "inactive"} : AdminSetProductStatus("p2", status)

SpecCartEdit == Init /\ [][NextCartEdit]_vars

\* The same, with the model method updateItemQuantity also called directly.
NextCartModel ==
  \/ NextCartEdit
  \/ \E k \in 1..MaxCartQty, q \in UpdateQuantities : CallUpdateItemQuantity("u1", k, q)

SpecCartModel == Init /\ [][NextCartModel]_vars

Next ==
  \/ CartStep
  \/ CheckoutStep(MaxOrders)
  \/ CatalogueStep
  \/ FulfilmentStep
  \/ PaymentStep

Spec == Init /\ [][Next]_vars

(***************************************************************************)
(* Properties.                                                             *)
(***************************************************************************)
Completed(o) == orders[o].payment.status = "completed"

\* The stock of every product that still exists moves by sign times the quantity
\* the order's lines hold of it.
StockMovedBy(items, sign) ==
  \A p \in Products :
    products[p].exists =>
      products'[p].quantity = products[p].quantity + sign * LineQty(items, p)

C2_ConfirmIsIdempotent ==
  [][\A i \in IntentIds :
       (/\ ConfirmPayment("u1", i)
        /\ intents[i].status = "succeeded"
        /\ Completed(intents[i].order)
        /\ orders[intents[i].order].payment.transactionId = i)
         => orders' = orders]_vars

\* C3: the inventory of a product that tracks its quantity is never negative.
C3_InventoryNeverNegative ==
  \A p \in Products : products[p].trackQuantity => products[p].quantity >= 0

\* The quantity of p that requests in progress have saved in an order and not
\* yet taken from the stock.
Undecremented(p) ==
  SeqSum([i \in 1..2 |->
            LET u == IF i = 1 THEN "u1" ELSE "u2"
            IN IF req[u].pc = "inc"
               THEN LineQty(SubSeq(req[u].order.items, req[u].k, Len(req[u].order.items)), p)
               ELSE 0])

Ordered(p) == SeqSum([o \in 1..Len(orders) |-> LineQty(orders[o].items, p)])

\* C4: order creation takes from each product's stock exactly the quantities of
\* the created orders' lines (nothing else moves the stock), and a creation that
\* has just answered 201 leaves its cart with no items, no coupon and discount 0.
C4_CreationDecrementsExactly ==
  /\ \A p \in Products :
       products[p].exists =>
         products[p].quantity = MaxStock - Ordered(p) + Undecremented(p)
  /\ (last.op = "order.create" /\ last.code = 201) =>
       carts[orders[last.arg].user] = EmptyCart

\* C4 witness: a two-line order with a coupon has just been created.
C4_Witness ==
  /\ last.op = "order.create"
  /\ last.code = 201
  /\ Len(orders[last.arg].items) = 2
  /\ orders[last.arg].couponCode = "SAVE10"
  /\ orders[last.arg].items[1].product # orders[last.arg].items[2].product

\* C5: a POST /orders whose cart is empty or holds a line whose product is
\* missing, not active or short of tracked stock answers 400 and persists no
\* order, changes no inventory and leaves the cart as it was.
C5_FailedCreationChangesNothing ==
  [][\A u \in Users :
       (/\ CreateOrderBegin(u, MaxOrders)
        /\ \/ Len(carts[u].items) = 0
           \/ \E i \in 1..Len(carts[u].items) :
                LET product == products[carts[u].items[i].product]
                IN \/ ~product.exists
                   \/ product.status # "active"
                   \/ product.trackQuantity /\ product.quantity < carts[u].items[i].quantity)
         => /\ last'.code = 400
            /\ orders' = orders
            /\ products' = products
            /\ carts' = carts
            /\ req' = req]_vars

\* C5 witness: u1's creation has just been refused for a cart holding a line whose
\* product is inactive (u2's cart is empty, so the refusal of a non-empty cart is u1's).
C5_Witness ==
  /\ last = Resp("order.create", 0, 400)
  /\ Len(carts["u1"].items) = 2
  /\ \E i \in 1..2 : /\ products[carts["u1"].items[i].product].exists
                     /\ products[carts["u1"].items[i].product].status = "inactive"
  /\ orders = << >>
  /\ req["u1"].pc = "idle"

\* C6: POST /orders/:id/cancel on an order in a cancelable status whose payment is
\* completed adds every line's quantity back to its product; on an order that is
\* not cancelable (in particular one already cancelled) it answers 400 and
\* changes neither the inventory nor the order.
C6_CancelRestoresOnce ==
  [][\A o \in OrderIds :
       CancelOrder("u1", o) =>
         IF orders[o].status \in {"pending", "confirmed", "processing"}
         THEN /\ orders'[o].status = "cancelled"
              /\ Completed(o) => StockMovedBy(orders[o].items, 1)
              /\ ~Completed(o) => products' = products
         ELSE /\ last'.code = 400
              /\ orders' = orders
              /\ products' = products]_vars

\* C6 witness: a second cancel of a paid, cancelled order has just been refused,
\* the stock standing where the first cancel put it back.
C6_Witness ==
  /\ last.op = "order.cancel"
  /\ last.code = 400
  /\ LET order == orders[last.arg]
     IN /\ order.status = "cancelled"
        /\ order.payment.status = "completed"
        /\ Len(order.items) = 2
        /\ order.statusHistory[Len(order.statusHistory)].note = "Cancelled by user"
        /\ \A p \in Products : products[p].quantity = MaxStock

\* C7: every step that moves an order to cancelled or returned while its payment
\* is completed adds every line's quantity back to its product's inventory.
C7_PaidCancelOrReturnRestores ==
  [][\A o \in OrderIds :
       (/\ Completed(o)
        /\ Len(orders'[o].statusHistory) = Len(orders[o].statusHistory) + 1
        /\ orders'[o].status \in {"cancelled", "returned"})
         => StockMovedBy(orders[o].items, 1)]_vars

PaymentEdges ==
  {<<"pending", "processing">>, <<"processing", "completed">>,
   <<"processing", "failed">>, <<"completed", "refunded">>}

\* C8: payment.status changes only along pending->processing,
\* processing->completed, processing->failed and completed->refunded.
C8_PaymentStatusEdges ==
  [][\A o \in OrderIds :
       orders'[o].payment.status # orders[o].payment.status
         => <<orders[o].payment.status, orders'[o].payment.status>> \in PaymentEdges]_vars

\* C9: from every order state, for the same intent and the same provider outcome,
\* the confirm endpoint and the webhook handler leave the same order.
C9_ConfirmEqualsWebhook ==
  \A i \in IntentIds :
    LET order == orders[intents[i].order]
    IN /\ ConfirmEffect(order, i, "succeeded")
            = WebhookEffect(order, i, "payment_intent.succeeded")
       /\ ConfirmEffect(order, i, "requires_payment_method")
            = WebhookEffect(order, i, "payment_intent.payment_failed")

\* C10: no operation changes the line items, the pricing or the order number of
\* an order once it is created, and pricing.total is always
\* subtotal + shipping + tax - discount.
C10_SnapshotIsImmutable ==
  /\ [](\A o \in OrderIds :
          orders[o].pricing.total =
            orders[o].pricing.subtotal + orders[o].pricing.shipping
              + orders[o].pricing.tax - orders[o].pricing.discount)
  /\ [][\A o \in OrderIds :
          /\ orders'[o].items = orders[o].items
          /\ orders'[o].pricing = orders[o].pricing
          /\ orders'[o].orderNumber = orders[o].orderNumber]_vars

\* C10 witness: an order that was paid and refunded, whose line still carries the
\* price captured at creation after the product's price was edited.
C10_Witness ==
  \E o \in OrderIds :
    /\ orders[o].payment.status = "refunded"
    /\ orders[o].orderNumber = o
    /\ orders[o].items[1].product = "p1"
    /\ orders[o].items[1].price = 4500
    /\ products["p1"].price = 6000

IsPrefix(s, t) == Len(s) <= Len(t) /\ SubSeq(t, 1, Len(s)) = s

\* C11: the status history is append-only and tracks the status: no step removes
\* or rewrites an entry, a step that changes an order's status appends exactly
\* one entry carrying the new status, and whenever the history is not empty the
\* status is the status of its last entry.
C11_HistoryTracksStatus ==
  /\ [](\A o \in OrderIds :
          orders[o].statusHistory # << >> =>
            orders[o].status = orders[o].statusHistory[Len(orders[o].statusHistory)].status)
  /\ [][\A o \in OrderIds :
          /\ IsPrefix(orders[o].statusHistory, orders'[o].statusHistory)
          /\ orders'[o].status # orders[o].status =>
               /\ Len(orders'[o].statusHistory) = Len(orders[o].statusHistory) + 1
               /\ orders'[o].statusHistory[Len(orders'[o].statusHistory)].status
                    = orders'[o].status]_vars

\* C11 witness: an order paid and then cancelled by its owner, the history
\* holding both entries in order.
C11_Witness ==
  \E o \in OrderIds :
    /\ orders[o].status = "cancelled"
    /\ Len(orders[o].statusHistory) = 2
    /\ orders[o].statusHistory[1].status = "confirmed"
    /\ orders[o].statusHistory[2].status = "cancelled"

\* C12: an order whose creation has just answered 201 has payment.status pending,
\* status pending and a statusHistory that holds the initial entry for pending.
C12_CreatedOrderHasInitialEntry ==
  (last.op = "order.create" /\ last.code = 201) =>
    LET order == orders[last.arg]
    IN /\ order.payment.status = "pending"
       /\ order.status = "pending"
       /\ Len(order.statusHistory) >= 1
       /\ order.statusHistory[1].status = "pending"

\* C13: PUT /orders/:id/status by a caller who is not an administrator answers
\* 403 and changes neither the order nor the inventory; POST /orders/:id/cancel
\* succeeds exactly when the caller owns the order or is an administrator and the
\* order is pending, confirmed or processing, and otherwise changes neither the
\* orders nor the inventory.
C13_StatusAuthorization ==
  [][/\ \A caller \in Users, o \in OrderIds, status \in AuthStatuses :
          AdminUpdateStatus(caller, o, status) =>
            /\ last'.code = 403
            /\ orders' = orders
            /\ products' = products
     /\ \A caller \in Callers, o \in OrderIds :
          CancelOrder(caller, o) =>
            IF /\ caller = orders[o].user \/ caller = Admin
               /\ orders[o].status \in {"pending", "confirmed", "processing"}
            THEN /\ last'.code = 200
                 /\ orders'[o].status = "cancelled"
            ELSE /\ last'.code # 200
                 /\ orders' = orders
                 /\ products' = products]_vars

\* C13 witness: a customer who does not own a paid, confirmed order has just been
\* refused its cancellation.
C13_Witness ==
  /\ last.op = "order.cancel"
  /\ last.code = 404
  /\ orders[last.arg].user = "u1"
  /\ orders[last.arg].status = "confirmed"
  /\ orders[last.arg].payment.status = "completed"

RECURSIVE ModifiersUpTo(_, _)
\* The sum of the price modifiers of the first n selections of a line.
ModifiersUpTo(svs, n) ==
  IF n = 0 THEN 0 ELSE ModifiersUpTo(svs, n - 1) + svs[n].priceModifier

RECURSIVE LinesUpTo(_, _)
\* The sum over the first n lines of (captured price + modifiers) x quantity.
LinesUpTo(items, n) ==
  IF n = 0 THEN 0
  ELSE LinesUpTo(items, n - 1)
         + (items[n].price + ModifiersUpTo(items[n].selectedVariants,
                                           Len(items[n].selectedVariants)))
             * items[n].quantity

RECURSIVE QuantitiesUpTo(_, _)
QuantitiesUpTo(items, n) ==
  IF n = 0 THEN 0 ELSE QuantitiesUpTo(items, n - 1) + items[n].quantity

\* C14: in every cart state the subtotal virtual is the sum over the lines of
\* (captured price + the line's variant price modifiers) x quantity, totalItems
\* is the sum of the quantities and total is max(0, subtotal - discount).
C14_CartTotals ==
  \A u \in Users :
    LET cart == carts[u]
        subtotal == LinesUpTo(cart.items, Len(cart.items))
    IN /\ CartSubtotal(cart) = subtotal
       /\ CartTotalItems(cart) = QuantitiesUpTo(cart.items, Len(cart.items))
       /\ CartTotal(cart) = IF subtotal - cart.discount >= 0
                            THEN subtotal - cart.discount ELSE 0

\* C14 witness: a cart of two lines, one of them with a variant surcharge, and a
\* coupon discount.
C14_Witness ==
  LET cart == carts["u1"]
  IN /\ Len(cart.items) = 2
     /\ \E i \in 1..2 : SumMods(cart.items[i].selectedVariants) > 0
     /\ cart.discount > 0
     /\ CartTotal(cart) = CartSubtotal(cart) - cart.discount

\* The set of (name, value) pairs of a variant selection.
SelectionSet(svs) == {<<svs[i].name, svs[i].value>> : i \in 1..Len(svs)}

\* C15: an accepted POST /cart/items merges into an existing line exactly when a
\* line holds the same product and the same set of (name, value) selections (the
\* quantity is added, the number of lines stays) and appends a new line in every
\* other case; so no two lines of a cart share product and selection set.
C15_MergeIffSameSelection ==
  /\ [](\A u \in Users :
          \A i, j \in 1..Len(carts[u].items) :
            (/\ i # j
             /\ carts[u].items[i].product = carts[u].items[j].product)
              => SelectionSet(carts[u].items[i].selectedVariants)
                   # SelectionSet(carts[u].items[j].selectedVariants))
  /\ [][\A p \in Products, q \in 1..MaxCartQty, sel \in CartSelections :
          (AddItem("u1", p, q, sel) /\ last'.code = 200) =>
            LET items == carts["u1"].items
                added == ValidatedVariants(p, sel)
                same == {i \in 1..Len(items) :
                           /\ items[i].product = p
                           /\ SelectionSet(items[i].selectedVariants) = SelectionSet(added)}
            IN IF same # {}
               THEN /\ Len(carts'["u1"].items) = Len(items)
                    /\ \E i \in same :
                         carts'["u1"].items = [items EXCEPT ![i].quantity = @ + q]
               ELSE /\ Len(carts'["u1"].items) = Len(items) + 1
                    /\ SubSeq(carts'["u1"].items, 1, Len(items)) = items]_vars

\* C16: POST /cart/validate is read-only: a request that has just been answered
\* with its issue list left every stored cart (lines, quantities, captured
\* prices, coupon, discount) and every product as they were.
C16_ValidateIsReadOnly ==
  [][last'.op = "cart.validate" =>
       /\ carts' = carts
       /\ products' = products
       /\ last'.arg = Len(CartIssues(carts["u1"].items, products))]_vars

\* C16 witness: a validation has just reported an issue for each of the two lines
\* of a cart that carries a coupon, and the lines are still there.
C16_Witness ==
  /\ last.op = "cart.validate"
  /\ last.arg >= 2
  /\ Len(carts["u1"].items) = 2
  /\ carts["u1"].couponCode # NoCoupon
  /\ carts["u1"].discount > 0

\* A pricing breakdown in cents as the claim C17 states it: shipping 0 from a
\* subtotal of 100.00 and 10.00 below it, tax the cent amount nearest to 8.5% of
\* subtotal + shipping (a half cent rounds up), total the sum less the discount.
PricedAsStated(pricing) ==
  /\ pricing.shipping = IF pricing.subtotal >= 10000 THEN 0 ELSE 1000
  /\ 1000 * pricing.tax - 500 <= 85 * (pricing.subtotal + pricing.shipping)
  /\ 85 * (pricing.subtotal + pricing.shipping) < 1000 * pricing.tax + 500
  /\ pricing.total = pricing.subtotal + pricing.shipping + pricing.tax - pricing.discount

C18_OrderSubtotalIsCartSubtotal ==
  [][\A u \in Users :
       (req[u].pc = "idle" /\ req'[u].pc = "save") =>
         /\ req'[u].order.pricing.subtotal
              = SeqSum([i \in 1..Len(carts[u].items) |->
                          carts[u].items[i].price * carts[u].items[i].quantity])
         /\ req'[u].order.pricing.subtotal = CartSubtotal(carts[u])]_vars

\* The coupon table as the claim C19 uses it, by upper-cased code.
StatedCoupons == {"SAVE10", "SAVE20", "FREESHIP"}
StatedCode(code) ==
  CASE code = "save10" -> "SAVE10"
    [] code = "freeship" -> "FREESHIP"
    [] OTHER -> code

\* d is value% of the subtotal rounded to the cent (a half cent rounds up).
PercentRounded(d, value, subtotal) ==
  /\ 100 * d - 50 <= value * subtotal
  /\ value * subtotal < 100 * d + 50

\* x is min(subtotal, d) for the d a coupon yields on the subtotal.
StatedDiscount(x, coupon, subtotal) ==
  IF coupon.type = "percentage"
  THEN \/ PercentRounded(x, coupon.value, subtotal) /\ x <= subtotal
       \/ x = subtotal /\ coupon.value * subtotal >= 100 * subtotal - 50
  ELSE x = IF coupon.value < subtotal THEN coupon.value ELSE subtotal

\* C19: POST /cart/apply-coupon with a known code on a non-empty cart whose
\* subtotal reaches the coupon's minimum stores the upper-cased code and the
\* discount min(subtotal, d), d being value% of the subtotal rounded to the cent
\* or the fixed value; with an unknown code, an empty cart or a subtotal below
\* the minimum it answers 400 and leaves the cart as it was.
C19_CouponApplication ==
  [][\A code \in CouponCodes :
       ApplyCoupon("u1", code) =>
         LET cart == carts["u1"]
             subtotal == LinesUpTo(cart.items, Len(cart.items))
             upper == StatedCode(code)
         IN IF /\ upper \in StatedCoupons
               /\ cart.items # << >>
               /\ subtotal >= DemoCoupons[upper].minAmount
            THEN /\ last'.code = 200
                 /\ carts'["u1"].couponCode = upper
                 /\ carts'["u1"].items = cart.items
                 /\ StatedDiscount(carts'["u1"].discount, DemoCoupons[upper], subtotal)
            ELSE /\ last'.code = 400
                 /\ carts' = carts]_vars

\* C19 witness: save10 has just been applied to a cart of subtotal 60.00:
\* discount 6.00, total 54.00.
C19_Witness ==
  /\ last = Resp("cart.coupon", 0, 200)
  /\ carts["u1"].couponCode = "SAVE10"
  /\ CartSubtotal(carts["u1"]) = 6000
  /\ carts["u1"].discount = 600
  /\ CartTotal(carts["u1"]) = 5400

\* C20: POST /cart/items answers 404 for a missing product, 400 for a product
\* that is not active and 400 for a tracked product whose stock is below the
\* requested quantity, leaving the cart as it was; in every other case it
\* answers 200 and the cart holds the requested quantity more of the product.
C20_AddItemRejections ==
  [][\A p \in Products, q \in 1..MaxCartQty, sel \in CartSelections :
       (last'.op = "cart.add" /\ AddItem("u1", p, q, sel)) =>
         LET product == products[p]
             items == carts["u1"].items
         IN IF ~product.exists
            THEN last'.code = 404 /\ carts' = carts
            ELSE IF product.status # "active"
            THEN last'.code = 400 /\ carts' = carts
            ELSE IF product.trackQuantity /\ product.quantity < q
            THEN last'.code = 400 /\ carts' = carts
            ELSE /\ last'.code = 200
                 /\ \A r \in Products :
                      LineQty(carts'["u1"].items, r)
                        = LineQty(items, r) + (IF r = p THEN q ELSE 0)]_vars

\* C20 witness: an add has just been refused for want of stock (both products
\* exist and are active, p1 is sold out), the cart keeping its line.
C20_Witness ==
  /\ last = Resp("cart.add", 0, 400)
  /\ \A p \in Products : products[p].exists /\ products[p].status = "active"
  /\ products["p1"].quantity = 0
  /\ Len(carts["u1"].items) = 1

\* The lines of a cart other than line k, in order.
OtherLines(cart, k) == SubSeq(cart.items, 1, k - 1) \o SubSeq(cart.items, k + 1, Len(cart.items))

\* What updateItemQuantity(k, quantity) is stated to do to the cart of u1.
UpdatedAsStated(k, quantity) ==
  LET old == carts["u1"]
      new == carts'["u1"]
  IN /\ new.couponCode = old.couponCode
     /\ new.discount = old.discount
     /\ IF quantity <= 0
        THEN new.items = OtherLines(old, k)
        ELSE /\ Len(new.items) = Len(old.items)
             /\ new.items[k] = [old.items[k] EXCEPT !.quantity = quantity]
             /\ OtherLines(new, k) = OtherLines(old, k)

\* C21: updateItemQuantity on a line of the cart removes the line when the
\* requested quantity is <= 0 and otherwise overwrites the line's quantity, and
\* leaves the other lines, the coupon and the discount as they were; for an item
\* that is not in the cart it fails with 'Item not found in cart' and the cart is
\* unchanged.  This holds for the method called directly and for the call made
\* by PUT /cart/items/:itemId.
C21_UpdateItemQuantity ==
  [][\A k \in 1..MaxCartQty, q \in UpdateQuantities :
       /\ (last'.op = "Cart.updateItemQuantity" /\ CallUpdateItemQuantity("u1", k, q))
            => IF k \in 1..Len(carts["u1"].items)
               THEN last'.code = Resolved /\ UpdatedAsStated(k, q)
               ELSE last'.code = ItemNotFound /\ carts' = carts
       /\ (last'.op = "cart.update" /\ UpdateItemQuantity("u1", k, q))
            => /\ last'.code = 200 => UpdatedAsStated(k, q)
               /\ last'.code # 200 => carts' = carts
               /\ k \notin 1..Len(carts["u1"].items) /\ q \in 1..99 => last'.code = 404]_vars

\* updateItemQuantity has just resolved on a cart with a coupon, leaving one line
\* of quantity 1 and the discount in place.
C21_Witness ==
  /\ last.op = "Cart.updateItemQuantity"
  /\ last.code = Resolved
  /\ Len(carts["u1"].items) = 1
  /\ carts["u1"].items[1].quantity = 1
  /\ carts["u1"].discount > 0

\* C30: in every cart state reached by add item, update quantity, remove item,
\* apply coupon, remove coupon and clear, the stored discount is at most the
\* cart's current subtotal.
C30_DiscountAtMostSubtotal ==
  \A u \in Users : carts[u].discount <= CartSubtotal(carts[u])

\* C22: a webhook event whose signature verification fails is answered with 400
\* and changes no order (nor any other document); a verified event of a type
\* other than payment_intent.succeeded and payment_intent.payment_failed is
\* answered with 200 (received) and changes no order either.
C22_WebhookTrustsVerifiedKnownEvents ==
  [][\A i \in 1..MaxIntents, type \in EventTypes, verified \in BOOLEAN :
       (/\ last'.op = "webhook"
        /\ WebhookEvent(i, type, verified)
        /\ ~verified \/ type \notin HandledEventTypes)
         => /\ last'.code = IF verified THEN 200 ELSE 400
            /\ orders' = orders
            /\ products' = products
            /\ carts' = carts]_vars

\* A forged event has just been refused while an order waits for its payment (a
\* trusted payment_intent.succeeded would have marked it paid).
C22_Witness ==
  /\ last.op = "webhook"
  /\ last.code = 400
  /\ \E i \in IntentIds :
       /\ last.arg = i
       /\ orders[intents[i].order].payment.status = "processing"

\* C23: in every state reached through category create and update requests,
\* each category's slug is the normalization of its name, its level is its
\* parent's level + 1 (0 without parent) and its path is its parent's path
\* followed by its slug (its slug alone without parent).
C23_DerivedFieldsConsistent ==
  \A c \in CategoryIds :
    categories[c].exists =>
      /\ categories[c].slug = Slugify(categories[c].name)
      /\ categories[c].parent = NoParent =>
           /\ categories[c].level = 0
           /\ categories[c].path = << categories[c].slug >>
      /\ CategoryFound(categories[c].parent) =>
           /\ categories[c].level = categories[categories[c].parent].level + 1
           /\ categories[c].path =
                categories[categories[c].parent].path \o << categories[c].slug >>

RECURSIVE ChainEnds(_, _)
\* Following parent from category c reaches a category without parent, or an id
\* findById does not find, within n steps (the loop of getFullPath ends).
ChainEnds(c, n) ==
  IF ~CategoryFound(c) THEN TRUE
  ELSE IF categories[c].parent = NoParent THEN TRUE
  ELSE IF n = 0 THEN FALSE
  ELSE ChainEnds(categories[c].parent, n - 1)

\* C27: in every category store reached through create, update and delete
\* requests the parent relation has no cycle: no category is its own ancestor,
\* so the parent chain of every category ends (a chain that has not ended after
\* as many steps as there are categories has come back to a category it left).
C27_NoParentCycle ==
  \A c \in CategoryIds : ChainEnds(c, Len(categories))

\* C24: after any review submissions every product's rating.count is the number
\* of its stored reviews and its rating.average is the mean of their ratings
\* rounded to one decimal (0 and 0 without reviews).
C24_RatingIsFunctionOfReviews ==
  \A p \in Products :
    LET reviews == products[p].reviews
        sum == SeqSum([i \in 1..Len(reviews) |-> reviews[i].rating])
    IN /\ products[p].rating.count = Len(reviews)
       /\ products[p].rating.average =
            IF Len(reviews) = 0 THEN 0 ELSE RoundDiv(10 * sum, Len(reviews))

\* C25: a product's review list holds at most one review by each user, also
\* when two submissions of the same user interleave.
C25_OneReviewPerUser ==
  \A p \in Products, u \in Users :
    Cardinality({i \in 1..Len(products[p].reviews) : products[p].reviews[i].user = u}) <= 1

SettledStatuses == {"shipped", "delivered", "cancelled", "returned"}

\* C28: once an order's status is shipped, delivered, cancelled or returned,
\* neither the confirm endpoint nor a webhook event (succeeded or payment_failed,
\* whenever it is delivered) changes the order's status.
C28_ReconciliationKeepsFulfilment ==
  [][\A o \in OrderIds :
       (/\ last'.op \in {"payment.confirm", "webhook.succeeded", "webhook.failed"}
        /\ orders[o].status \in SettledStatuses)
         => orders'[o].status = orders[o].status]_vars

\* The total quantity of product p held by the orders whose status is neither
\* cancelled nor returned.
HeldByOrders(p) ==
  SeqSum([o \in 1..Len(orders) |->
            IF orders[o].status \in {"cancelled", "returned"}
            THEN 0
            ELSE LineQty(orders[o].items, p)])

\* C29: with no administrator edit of the stock, in every state where no order
\* request is in progress, each product's inventory.quantity plus the quantity
\* held by the orders that are neither cancelled nor returned is the product's
\* initial stock.
C29_InventoryConserved ==
  (\A u \in Users : req[u] = Idle)
    => \A p \in Products :
         products[p].exists => products[p].quantity + HeldByOrders(p) = MaxStock

=============================================================================
